---------------------------- MODULE Spec2Model ----------------------------
(***************************************************************************)
(* A model of youtube_subtitles_server.py: the three tool operations       *)
(* list_subtitle_languages, download_subtitles and get_video_info, the     *)
(* process runner run_yt_dlp_command they share, and the lifespan hook     *)
(* that computes the availability flag.                                    *)
(*                                                                         *)
(* A Python str is modelled as a sequence of one-character strings, so     *)
(* that the regular expressions and the str methods of the source are      *)
(* computed character by character.  The external tool and the file        *)
(* system are the environment: what yt-dlp prints, whether it exits        *)
(* non-zero, which files it leaves in the scratch directory and whether    *)
(* the scratch directory can be created and removed again are chosen       *)
(* nondeterministically.                                                   *)
(* The handlers contain no await, so each call runs to completion without  *)
(* interleaving and is one action.                                         *)
(***************************************************************************)
EXTENDS Naturals, Sequences, FiniteSets

---------------------------------------------------------------------------
(* Bounds of the enumerated inputs.                                        *)

\* Lines in a subtitle listing printed by the tool.
MaxListLines == 4
\* Chunks (blocks, caption lines, blank lines) in a subtitle file.
MaxSrtChunks == 4
\* Lines printed by the tool for the five-field template.
MaxInfoLines == 6

---------------------------------------------------------------------------
(* Python str and re primitives.  A character is a one-character string.   *)
(* The source's patterns are str patterns without re.ASCII, so \d, \w and   *)
(* \s are the Unicode classes; they are given here for the characters      *)
(* U+0001 to U+00FF, the ones a string of this module can hold.  The       *)
(* control characters without an escape stand in the strings as they are.  *)

\* \d: the decimal digits.
Digits ==
    {"0", "1", "2", "3", "4", "5", "6", "7", "8", "9"}

\* The characters of \w that are neither decimal digits nor the underscore:
\* the letters, and the numeric characters that are not decimal digits
\* (superscripts and fractions).
Letters ==
    {"A", "B", "C", "D", "E", "F", "G", "H", "I", "J", "K", "L", "M",
     "N", "O", "P", "Q", "R", "S", "T", "U", "V", "W", "X", "Y", "Z",
     "a", "b", "c", "d", "e", "f", "g", "h", "i", "j", "k", "l", "m",
     "n", "o", "p", "q", "r", "s", "t", "u", "v", "w", "x", "y", "z",
     "ª", "²", "³", "µ", "¹", "º", "¼", "½", "¾", "À", "Á", "Â", "Ã",
     "Ä", "Å", "Æ", "Ç", "È", "É", "Ê", "Ë", "Ì", "Í", "Î", "Ï", "Ð",
     "Ñ", "Ò", "Ó", "Ô", "Õ", "Ö", "Ø", "Ù", "Ú", "Û", "Ü", "Ý", "Þ",
     "ß", "à", "á", "â", "ã", "ä", "å", "æ", "ç", "è", "é", "ê", "ë",
     "ì", "í", "î", "ï", "ð", "ñ", "ò", "ó", "ô", "õ", "ö", "ø", "ù",
     "ú", "û", "ü", "ý", "þ", "ÿ"}

\* \s and str.strip(): tab, line feed, vertical tab (U+000B), form feed,
\* carriage return, the separators U+001C to U+001F, space, next line
\* (U+0085) and no-break space (U+00A0).
Whitespace ==
    {"\t", "\n", "", "\f", "\r", "", "", "", "", " ", "", " "}

\* str.splitlines(): line feed, vertical tab, form feed, carriage return,
\* the separators U+001C to U+001E and next line (U+0085).
LineBoundaries ==
    {"\n", "", "\f", "\r", "", "", "", ""}

\* One regex atom against one character: a class (\d, \w, \s) or a literal.
InClass(c, atom) ==
    CASE atom = "\\d" -> c \in Digits
      [] atom = "\\w" -> c \in Letters \cup Digits \cup {"_"}
      [] atom = "\\s" -> c \in Whitespace
      [] OTHER -> c = atom

\* Greedy repetition atom* from position i: the first position not matched.
RECURSIVE Span(_, _, _)
Span(s, i, atom) ==
    IF i <= Len(s) /\ InClass(s[i], atom) THEN Span(s, i + 1, atom) ELSE i

\* The first position >= i holding a character of cs, or Len(s) + 1.
RECURSIVE Until(_, _, _)
Until(s, i, cs) ==
    IF i <= Len(s) /\ s[i] \notin cs THEN Until(s, i + 1, cs) ELSE i

\* The last position <= i holding a non-whitespace character, or 0.
RECURSIVE SpanBack(_, _)
SpanBack(s, i) ==
    IF i >= 1 /\ s[i] \in Whitespace THEN SpanBack(s, i - 1) ELSE i

\* s[i:] in Python terms, i counted from 1.
From(s, i) == IF i > Len(s) THEN <<>> ELSE SubSeq(s, i, Len(s))

\* s[i:j] in Python terms for 1-based i and exclusive j.
Slice(s, i, j) == IF j <= i THEN <<>> ELSE SubSeq(s, i, j - 1)

\* The newline translation of a text read in text mode (a pipe of
\* subprocess.run(text=True), a file opened with newline=None): every
\* "\r\n" and every other "\r" is read as "\n".
RECURSIVE UniversalNewlines(_)
UniversalNewlines(s) ==
    LET j == Until(s, 1, {"\r"})
        k == IF j < Len(s) /\ s[j + 1] = "\n" THEN j + 2 ELSE j + 1
    IN  IF j > Len(s) THEN s
        ELSE Slice(s, 1, j) \o <<"\n">> \o UniversalNewlines(From(s, k))

\* str.strip()
Strip(s) == Slice(s, Span(s, 1, "\\s"), SpanBack(s, Len(s)) + 1)

\* str.split(sep) for a one-character sep: never empty, '' gives [''].
RECURSIVE Split(_, _)
Split(s, sep) ==
    LET j == Until(s, 1, {sep})
    IN  IF j > Len(s) THEN <<s>>
        ELSE <<Slice(s, 1, j)>> \o Split(From(s, j + 1), sep)

\* str.splitlines(): "\r\n" is one boundary, no empty last line, '' gives [].
RECURSIVE SplitLines(_)
SplitLines(s) ==
    IF s = <<>> THEN <<>>
    ELSE LET j == Until(s, 1, LineBoundaries)
             k == IF j < Len(s) /\ s[j] = "\r" /\ s[j + 1] = "\n"
                  THEN j + 1 ELSE j
         IN  <<Slice(s, 1, j)>> \o SplitLines(From(s, k + 1))

\* sep.join(parts)
RECURSIVE Join(_, _)
Join(parts, sep) ==
    IF parts = <<>> THEN <<>>
    ELSE IF Len(parts) = 1 THEN parts[1]
    ELSE parts[1] \o sep \o Join(Tail(parts), sep)

\* needle in s
Contains(s, needle) ==
    \E i \in 1..(Len(s) + 1) :
        /\ i + Len(needle) - 1 <= Len(s)
        /\ Slice(s, i, i + Len(needle)) = needle

---------------------------------------------------------------------------
(* The fixed texts of the source, as character sequences.                  *)

NotInstalledMsg ==
    <<"E","r","r","o","r",":"," ","y","t","-","d","l","p"," ","i","s"," ",
      "n","o","t"," ","i","n","s","t","a","l","l","e","d","."," ","P","l",
      "e","a","s","e"," ","i","n","s","t","a","l","l"," ","i","t"," ","w",
      "i","t","h",":"," ","p","i","p"," ","i","n","s","t","a","l","l"," ",
      "y","t","-","d","l","p">>

YtDlpErrorPrefix ==
    <<"y","t","-","d","l","p"," ","e","r","r","o","r",":"," ">>

YtDlpNotFoundMsg ==
    <<"y","t","-","d","l","p"," ","n","o","t"," ","f","o","u","n","d",".",
      " ","P","l","e","a","s","e"," ","m","a","k","e"," ","s","u","r","e",
      " ","i","t","'","s"," ","i","n","s","t","a","l","l","e","d"," ","a",
      "n","d"," ","i","n"," ","y","o","u","r"," ","P","A","T","H",".">>

AvailableMarker ==
    <<"A","v","a","i","l","a","b","l","e"," ","s","u","b","t","i","t","l",
      "e","s">>

NoSubtitlesMsg ==
    <<"N","o"," ","s","u","b","t","i","t","l","e","s"," ","f","o","u","n",
      "d"," ","f","o","r"," ","t","h","i","s"," ","v","i","d","e","o",".">>

LanguagesHeader ==
    <<"A","v","a","i","l","a","b","l","e"," ","s","u","b","t","i","t","l",
      "e"," ","l","a","n","g","u","a","g","e","s",":","\n">>

ListErrorPrefix ==
    <<"E","r","r","o","r"," ","l","i","s","t","i","n","g"," ","s","u","b",
      "t","i","t","l","e"," ","l","a","n","g","u","a","g","e","s",":"," ">>

NoSubsForLangPrefix ==
    <<"N","o"," ","s","u","b","t","i","t","l","e","s"," ","f","o","u","n",
      "d"," ","f","o","r"," ","l","a","n","g","u","a","g","e",":"," ">>

DownloadErrorPrefix ==
    <<"E","r","r","o","r"," ","d","o","w","n","l","o","a","d","i","n","g",
      " ","s","u","b","t","i","t","l","e","s",":"," ">>

ParseFailurePrefix ==
    <<"C","o","u","l","d","n","'","t"," ","p","a","r","s","e"," ","v","i",
      "d","e","o"," ","i","n","f","o","r","m","a","t","i","o","n",":"," ">>

InfoErrorPrefix ==
    <<"E","r","r","o","r"," ","g","e","t","t","i","n","g"," ","v","i","d",
      "e","o"," ","i","n","f","o",":"," ">>

TitleLabel ==
    <<"T","i","t","l","e",":"," ">>

DurationLabel ==
    <<"\n","D","u","r","a","t","i","o","n",":"," ">>

ChannelLabel ==
    <<"\n","C","h","a","n","n","e","l",":"," ">>

UploadDateLabel ==
    <<"\n","U","p","l","o","a","d"," ","D","a","t","e",":"," ">>

ViewsLabel ==
    <<"\n","V","i","e","w","s",":"," ">>

SubtitlesStem ==
    <<"s","u","b","t","i","t","l","e","s">>

SrtSuffix ==
    <<".","s","r","t">>

\* The atoms of \d{2}:\d{2}:\d{2},\d{3} --> \d{2}:\d{2}:\d{2},\d{3}\n, the part of
\* the timestamp regex after its leading \d+\n.
TimestampAtoms ==
    <<"\\d","\\d",":","\\d","\\d",":","\\d","\\d",",","\\d","\\d","\\d"," ","-","-",">"," ",
      "\\d","\\d",":","\\d","\\d",":","\\d","\\d",",","\\d","\\d","\\d","\n">>

---------------------------------------------------------------------------
(* The environment: texts the tool prints, errors of the operating system  *)
(* and names of scratch directories.                                       *)

MarkerText ==
    <<"[","i","n","f","o","]"," ","A","v","a","i","l","a","b","l","e"," ",
      "s","u","b","t","i","t","l","e","s"," ","f","o","r"," ","d","Q","w",
      "4","w","9","W","g","X","c","Q",":">>

HeaderText ==
    <<"L","a","n","g","u","a","g","e"," ","f","o","r","m","a","t","s">>

InfoText ==
    <<"[","y","o","u","t","u","b","e","]"," ","E","x","t","r","a","c","t",
      "i","n","g"," ","U","R","L">>

Ts1 ==
    <<"0","0",":","0","0",":","0","1",",","0","0","0"," ","-","-",">"," ",
      "0","0",":","0","0",":","0","2",",","0","0","0">>

Ts2 ==
    <<"0","0",":","0","0",":","0","2",",","5","0","0"," ","-","-",">"," ",
      "0","0",":","0","0",":","0","3",",","0","0","0">>

StderrUnavailable ==
    <<"E","R","R","O","R",":"," ","V","i","d","e","o"," ","u","n","a","v",
      "a","i","l","a","b","l","e","\r","\n">>

DecodeErrorPrefix ==
    <<"'","u","t","f","-","8","'"," ","c","o","d","e","c"," ","c","a","n",
      "'","t"," ","d","e","c","o","d","e"," ","b","y","t","e"," ","0","x",
      "f","f"," ","i","n"," ","p","o","s","i","t","i","o","n"," ">>

DecodeErrorSuffix ==
    <<":"," ","i","n","v","a","l","i","d"," ","s","t","a","r","t"," ","b",
      "y","t","e">>

NoSpacePrefix ==
    <<"[","E","r","r","n","o"," ","2","8","]"," ","N","o"," ","s","p","a",
      "c","e"," ","l","e","f","t"," ","o","n"," ","d","e","v","i","c","e",
      ":"," ","'">>

NotPermittedPrefix ==
    <<"[","E","r","r","n","o"," ","1","]"," ","O","p","e","r","a","t","i",
      "o","n"," ","n","o","t"," ","p","e","r","m","i","t","t","e","d",":",
      " ","'">>

NoSuchFilePrefix ==
    <<"[","E","r","r","n","o"," ","2","]"," ","N","o"," ","s","u","c","h",
      " ","f","i","l","e"," ","o","r"," ","d","i","r","e","c","t","o","r",
      "y",":"," ","'">>

TmpA ==
    <<"/","t","m","p","/","t","m","p","a","1","b","2","c","3","d","4">>

TmpB ==
    <<"/","t","m","p","/","t","m","p","z","9","y","8","x","7","w","6">>

KeepName ==
    <<"k","e","e","p">>

---------------------------------------------------------------------------
(* run_yt_dlp_command.  reply is what the operating system and the tool    *)
(* answer: exit "ok" (stdout returned), "nonzero" (CalledProcessError,     *)
(* re-raised as RuntimeError with the captured stderr) or "missing"        *)
(* (FileNotFoundError, re-raised as RuntimeError).  reply.stdout and       *)
(* reply.stderr are what the tool prints; subprocess.run(text=True) hands  *)
(* them over with the line ends translated.  value is the returned text,   *)
(* or str(e) of the exception raised.                                      *)

run_yt_dlp_command(reply) ==
    CASE reply.exit = "ok" ->
            [raised |-> FALSE, value |-> UniversalNewlines(reply.stdout)]
      [] reply.exit = "nonzero" ->
            [raised |-> TRUE,
             value |-> YtDlpErrorPrefix \o UniversalNewlines(reply.stderr)]
      [] reply.exit = "missing" ->
            [raised |-> TRUE, value |-> YtDlpNotFoundMsg]

\* A variant of the lookup below that asks for a key lifespan never sets
\* and falls back to True.
yt_dlp_available_wrong_key(context) ==
    IF "yt_dlp_installed" \in DOMAIN context
    THEN context["yt_dlp_installed"] ELSE TRUE

\* ctx.request_context.lifespan_context.get("yt_dlp_available", False)
yt_dlp_available(context) ==
    IF "yt_dlp_available" \in DOMAIN context
    THEN context["yt_dlp_available"] ELSE FALSE

\* What a call leaves behind: the text returned (or, with raised, the
\* str() of the exception that left the operation), the processes it
\* spawned, the scratch directories it created and the disk after it.
Outcome(result, raised, spawned, made, disk) ==
    [result |-> result, raised |-> raised, spawned |-> spawned,
     made |-> made, disk |-> disk]

---------------------------------------------------------------------------
(* list_subtitle_languages                                                 *)

\* re.match(r'\s*(\w+)\s+(\w+)?\s*(.*)', line).  Every quantifier is greedy
\* and the classes \s and \w are disjoint, so a match exists exactly when
\* the greedy one does: a shorter \s* leaves whitespace where \w+ must
\* start, a shorter \w+ leaves a word character where \s+ must start.
MatchLanguageLine(line) ==
    LET a == Span(line, 1, "\\s")
        b == Span(line, a, "\\w")
        c == Span(line, b, "\\s")
        d == Span(line, c, "\\w")
        e == Span(line, d, "\\s")
        f == Until(line, e, {"\n"})
    IN  IF b > a /\ c > b
        THEN [matched |-> TRUE, group1 |-> Slice(line, a, b),
              group3 |-> Slice(line, e, f)]
        ELSE [matched |-> FALSE, group1 |-> <<>>, group3 |-> <<>>]

\* The loop over output.splitlines(), with its two local variables.
RECURSIVE ScanLanguages(_, _, _)
ScanLanguages(lines, in_subtitles_section, languages) ==
    IF lines = <<>> THEN languages
    ELSE LET line == Head(lines)
             match == MatchLanguageLine(line)
         IN  IF Contains(line, AvailableMarker)
             THEN ScanLanguages(Tail(lines), TRUE, languages)
             ELSE IF in_subtitles_section /\ Strip(line) # <<>> /\ match.matched
             THEN ScanLanguages(Tail(lines), in_subtitles_section,
                      Append(languages,
                             match.group1 \o <<":", " ">> \o Strip(match.group3)))
             ELSE ScanLanguages(Tail(lines), in_subtitles_section, languages)

ParseLanguages(output) == ScanLanguages(SplitLines(output), FALSE, <<>>)

list_subtitle_languages(context, url, reply, disk) ==
    IF ~yt_dlp_available(context)
    THEN Outcome(NotInstalledMsg, FALSE, 0, {}, disk)
    ELSE LET output == run_yt_dlp_command(reply)
             languages == ParseLanguages(output.value)
         IN  IF output.raised
             THEN Outcome(ListErrorPrefix \o output.value, FALSE, 1, {}, disk)
             ELSE IF languages = <<>>
             THEN Outcome(NoSubtitlesMsg, FALSE, 1, {}, disk)
             ELSE Outcome(LanguagesHeader \o Join(languages, <<"\n">>),
                          FALSE, 1, {}, disk)

---------------------------------------------------------------------------
(* download_subtitles                                                      *)

\* re.match of \d+\n\d{2}:\d{2}:\d{2},\d{3} --> \d{2}:\d{2}:\d{2},\d{3}\n at
\* position i: the position after the match, 0 when there is none.  \d+ is
\* followed by \n, so only the whole run of digits can match.
MatchTimestamp(s, i) ==
    LET j == Span(s, i, "\\d")
        n == Len(TimestampAtoms)
    IN  IF /\ j > i
           /\ j <= Len(s)
           /\ s[j] = "\n"
           /\ j + n <= Len(s)
           /\ \A k \in 1..n : InClass(s[j + k], TimestampAtoms[k])
        THEN j + n + 1 ELSE 0

\* The first position >= i where the timestamp regex matches, 0 when it
\* matches nowhere.
NextTimestamp(s, i) ==
    LET at == {k \in i..Len(s) : MatchTimestamp(s, k) > 0}
    IN  IF at = {} THEN 0 ELSE CHOOSE k \in at : \A j \in at : k <= j

\* re.sub(timestamp regex, '', s) from position i: the text up to the
\* leftmost match is kept, the match dropped, and the search goes on after
\* it.
RECURSIVE RemoveTimestampsFrom(_, _)
RemoveTimestampsFrom(s, i) ==
    LET k == NextTimestamp(s, i)
    IN  IF k = 0 THEN From(s, i)
        ELSE Slice(s, i, k) \o RemoveTimestampsFrom(s, MatchTimestamp(s, k))

RemoveTimestamps(s) == RemoveTimestampsFrom(s, 1)

\* The last position in lo..j holding "\n", 0 when there is none.
RECURSIVE LastNewline(_, _, _)
LastNewline(s, j, lo) ==
    IF j < lo THEN 0
    ELSE IF s[j] = "\n" THEN j ELSE LastNewline(s, j - 1, lo)

\* A variant of the match below for the regex \n\n, without the \s*.
MatchDoubleNewline(s, i) ==
    IF s[i] = "\n" /\ i < Len(s) /\ s[i + 1] = "\n" THEN i + 2 ELSE 0

\* re.match of \n\s*\n at position i: the position after the match, 0 when
\* there is none.  \s* is greedy and backtracks to the last "\n" of the run
\* of whitespace that follows the first "\n".
MatchBlankLines(s, i) ==
    IF s[i] # "\n" THEN 0
    ELSE LET k == Span(s, i + 1, "\\s")
             j == LastNewline(s, k - 1, i + 1)
         IN  IF j > 0 THEN j + 1 ELSE 0

\* The first position >= i where \n\s*\n matches, 0 when it matches
\* nowhere.
NextBlankLines(s, i) ==
    LET at == {k \in i..Len(s) : MatchBlankLines(s, k) > 0}
    IN  IF at = {} THEN 0 ELSE CHOOSE k \in at : \A j \in at : k <= j

\* re.sub(r'\n\s*\n', '\n', s) from position i: the text up to the leftmost
\* match is kept, the match replaced by "\n", and the search goes on after
\* it.
RECURSIVE CollapseBlankLinesFrom(_, _)
CollapseBlankLinesFrom(s, i) ==
    LET k == NextBlankLines(s, i)
    IN  IF k = 0 THEN From(s, i)
        ELSE Slice(s, i, k) \o <<"\n">>
                 \o CollapseBlankLinesFrom(s, MatchBlankLines(s, k))

CollapseBlankLines(s) == CollapseBlankLinesFrom(s, 1)

\* The two substitutions applied to the subtitle file's text.
CleanSubtitles(subtitles) == CollapseBlankLines(RemoveTimestamps(subtitles))

\* os.path.join(a, b) on POSIX paths: an absolute b replaces a.
PathJoin(a, b) ==
    IF b # <<>> /\ b[1] = "/" THEN b
    ELSE IF a = <<>> \/ a[Len(a)] = "/" THEN a \o b
    ELSE a \o <<"/">> \o b

\* f"{output_filename}.{lang}.srt" with output_filename = temp_dir/subtitles
SubtitleFile(temp_dir, lang) ==
    PathJoin(temp_dir, SubtitlesStem) \o <<".">> \o lang \o SrtSuffix

\* str(e) of an OSError that names a path: "[Errno n] text: 'path'".
OSErrorText(prefix, path) == prefix \o path \o <<"'">>

\* tempfile.mkdtemp inside TemporaryDirectory(): the directory is made, or
\* os.mkdir raises for the name it tried (no space left, or no directory
\* to make it in).  value is str(e) of the exception raised.
Mkdtemp(reply) ==
    CASE reply.mkdtemp = "ok" ->
            [raised |-> FALSE, value |-> reply.temp_dir]
      [] reply.mkdtemp = "nospace" ->
            [raised |-> TRUE, value |-> OSErrorText(NoSpacePrefix, reply.temp_dir)]
      [] reply.mkdtemp = "noroot" ->
            [raised |-> TRUE, value |-> OSErrorText(NoSuchFilePrefix, reply.temp_dir)]

\* tempfile.TemporaryDirectory().__enter__: a new, empty directory.  files
\* are the paths in it, locked those of them that cannot be removed.
TemporaryDirectoryEnter(disk, temp_dir) ==
    disk \cup {[path |-> temp_dir, files |-> {}, locked |-> {}]}

\* tempfile.TemporaryDirectory().__exit__, shutil.rmtree of the directory:
\* the directory and all in it go.  A file that cannot be removed ends the
\* removal with PermissionError: the directory stays, with that file and
\* with the files rmtree had not come to yet (all it had, after
\* reply.swept, or none of them, the order being that of os.scandir).
TemporaryDirectoryExit(disk, temp_dir, reply) ==
    LET dir == CHOOSE d \in disk : d.path = temp_dir
        stuck == CHOOSE f \in dir.locked : TRUE
        left == IF reply.swept THEN dir.locked ELSE dir.files
    IN  IF dir.locked = {}
        THEN [raised |-> FALSE, value |-> <<>>,
              disk |-> {d \in disk : d.path # temp_dir}]
        ELSE [raised |-> TRUE, value |-> OSErrorText(NotPermittedPrefix, stuck),
              disk |-> {IF d.path = temp_dir THEN [d EXCEPT !.files = left]
                        ELSE d : d \in disk}]

\* The tool run with --output=temp_dir/subtitles: the files it leaves, one
\* of which (reply.keeps) cannot be removed afterwards.
ToolWrites(disk, temp_dir, reply) ==
    LET written == {SubtitleFile(temp_dir, l) : l \in reply.wrote}
        kept == IF reply.keeps THEN {PathJoin(temp_dir, KeepName)} ELSE {}
    IN  {IF d.path = temp_dir /\ reply.exit # "missing"
         THEN [d EXCEPT !.files = @ \cup written \cup kept,
                        !.locked = @ \cup kept]
         ELSE d : d \in disk}

\* os.path.exists(path)
PathExists(disk, path) == \E d \in disk : path \in d.files

\* str(n) for a natural number n.
RECURSIVE Decimal(_)
Decimal(n) ==
    LET digit == <<"0", "1", "2", "3", "4", "5", "6", "7", "8", "9">>
    IN  IF n < 10 THEN <<digit[n + 1]>>
        ELSE Decimal(n \div 10) \o <<digit[(n % 10) + 1]>>

\* open(path, "r", encoding="utf-8") and f.read(): the text of the file
\* with its line ends translated, or the exception raised (no such file,
\* or a byte 0xff, which is not UTF-8, at offset reply.bad_at).
ReadFile(disk, path, reply) ==
    IF ~\E d \in disk : path \in d.files
    THEN [raised |-> TRUE, value |-> OSErrorText(NoSuchFilePrefix, path)]
    ELSE IF ~reply.readable
    THEN [raised |-> TRUE,
          value |-> DecodeErrorPrefix \o Decimal(reply.bad_at)
                        \o DecodeErrorSuffix]
    ELSE [raised |-> FALSE, value |-> UniversalNewlines(reply.content)]

\* The body of the with statement, the try block and its except clause,
\* on the disk as the tool run left it.  The result is the text returned.
DownloadBody(disk, temp_dir, lang, reply) ==
    LET ran == run_yt_dlp_command(reply)
        subtitle_file == SubtitleFile(temp_dir, lang)
        path == PathJoin(temp_dir, subtitle_file)
        subtitles == ReadFile(disk, path, reply)
    IN  IF ran.raised THEN DownloadErrorPrefix \o ran.value
        ELSE IF PathExists(disk, path)
        THEN IF subtitles.raised THEN DownloadErrorPrefix \o subtitles.value
             ELSE CleanSubtitles(subtitles.value)
        ELSE NoSubsForLangPrefix \o lang

\* The with statement stands outside the try block: an exception of
\* TemporaryDirectory() or of its exit leaves the operation, the latter in
\* place of the text the body returned.
download_subtitles(context, url, lang, reply, disk) ==
    IF ~yt_dlp_available(context)
    THEN Outcome(NotInstalledMsg, FALSE, 0, {}, disk)
    ELSE IF Mkdtemp(reply).raised
    THEN Outcome(Mkdtemp(reply).value, TRUE, 0, {}, disk)
    ELSE LET temp_dir == Mkdtemp(reply).value
             entered == TemporaryDirectoryEnter(disk, temp_dir)
             after == ToolWrites(entered, temp_dir, reply)
             result == DownloadBody(after, temp_dir, lang, reply)
             exit == TemporaryDirectoryExit(after, temp_dir, reply)
         IN  IF exit.raised
             THEN Outcome(exit.value, TRUE, 1, {temp_dir}, exit.disk)
             ELSE Outcome(result, FALSE, 1, {temp_dir}, exit.disk)

---------------------------------------------------------------------------
(* get_video_info                                                          *)

\* f"{upload_date[:4]}-{upload_date[4:6]}-{upload_date[6:8]}" when
\* len(upload_date) == 8
FormatUploadDate(upload_date) ==
    IF Len(upload_date) = 8
    THEN Slice(upload_date, 1, 5) \o <<"-">> \o Slice(upload_date, 5, 7)
             \o <<"-">> \o Slice(upload_date, 7, 9)
    ELSE upload_date

\* A variant of the message below that embeds the stripped output.
ParseFailureStripped(output) == ParseFailurePrefix \o Strip(output)

\* The else branch: f"Couldn't parse video information: {output}"
ParseFailure(output) == ParseFailurePrefix \o output

\* The parsing of the tool's output, from output.strip().split('\n') on.
FormatVideoInfo(output) ==
    LET lines == Split(Strip(output), "\n")
    IN  IF Len(lines) >= 5
        THEN TitleLabel \o lines[1] \o DurationLabel \o lines[2]
                 \o ChannelLabel \o lines[3]
                 \o UploadDateLabel \o FormatUploadDate(lines[4])
                 \o ViewsLabel \o lines[5]
        ELSE ParseFailure(output)

get_video_info(context, url, reply, disk) ==
    IF ~yt_dlp_available(context)
    THEN Outcome(NotInstalledMsg, FALSE, 0, {}, disk)
    ELSE LET output == run_yt_dlp_command(reply)
         IN  IF output.raised
             THEN Outcome(InfoErrorPrefix \o output.value, FALSE, 1, {}, disk)
             ELSE Outcome(FormatVideoInfo(output.value), FALSE, 1, {}, disk)

---------------------------------------------------------------------------
(* Inputs of the calls and answers of the environment.                     *)

Urls == {"https://www.youtube.com/watch?v=dQw4w9WgXcQ", "https://youtu.be/jNQXAC9IVRw"}

En == <<"e", "n">>
Fr == <<"f", "r">>
Es == <<"e", "s">>
Langs == {En, Fr}

TmpDirs == {TmpA, TmpB}

\* tempfile.mkdtemp picks a name that is not in use; the names are
\* interchangeable and one of them stands for all.
FreshDirs(disk) ==
    LET free == TmpDirs \ {d.path : d \in disk}
    IN  IF free = {} THEN {} ELSE {CHOOSE t \in free : TRUE}

\* All sequences over S of length at most n.
SeqsUpTo(S, n) == UNION {[1..k -> S] : k \in 0..n}

\* A line (or chunk) the environment can produce: its text, and for the
\* properties what it stands for.
Piece(kind, text, code, name) ==
    [kind |-> kind, text |-> text, code |-> code, name |-> name]

\* The text of a sequence of pieces, each ended by a newline.
RECURSIVE Render(_)
Render(shape) ==
    IF shape = <<>> THEN <<>>
    ELSE Head(shape).text \o <<"\n">> \o Render(Tail(shape))

\* A listing line as in "en       vtt, srt  English".
EntryLine(code, formats, name) ==
    code \o <<" ", " ", " ", " ", " ", " ", " ">> \o formats \o <<" ", " ">> \o name

ListingLines ==
    {Piece("marker", MarkerText, <<>>, <<>>),
     Piece("other", HeaderText, <<>>, <<>>),
     Piece("other", InfoText, <<>>, <<>>),
     Piece("entry", EntryLine(En, <<"v", "t", "t", ",", " ", "s", "r", "t">>,
                              <<"E", "n", "g", "l", "i", "s", "h">>),
           En, <<"E", "n", "g", "l", "i", "s", "h">>),
     Piece("entry", EntryLine(Fr, <<"v", "t", "t", ",", " ", "s", "r", "t">>,
                              <<"F", "r", "e", "n", "c", "h">>),
           Fr, <<"F", "r", "e", "n", "c", "h">>),
     Piece("entry", EntryLine(Es, <<"v", "t", "t">>,
                              <<"E", "s", "p", "a", "ñ", "o", "l">>),
           Es, <<"E", "s", "p", "a", "ñ", "o", "l">>)}

Hello == <<"H", "e", "l", "l", "o">>
World == <<"W", "o", "r", "l", "d">>

\* Chunks of a subtitle file: a block (number line, timestamp line, one
\* caption line) with LF or with CRLF line ends, a further caption line, a
\* blank line, a stray timestamp.
SrtChunks ==
    {Piece("block", <<"1", "\n">> \o Ts1 \o <<"\n">> \o Hello, <<>>, Hello),
     Piece("block", <<"1", "2", "\r", "\n">> \o Ts2 \o <<"\r", "\n">> \o World \o <<"\r">>,
           <<>>, World),
     Piece("caption", <<"7">>, <<>>, <<"7">>),
     Piece("blank", <<>>, <<>>, <<>>),
     Piece("blank", <<" ">>, <<>>, <<>>),
     Piece("timestamp", Ts1, <<>>, <<>>)}

\* Lines printed for the five-field template: the text printed before the
\* "\n" and the value of the field; one of them is printed with a CRLF
\* line end.
InfoLines ==
    {Piece("field", <<"R", "i", "c", "k">>, <<>>, <<"R", "i", "c", "k">>),
     Piece("field", <<"2", "0", "2", "4", "0", "1", "1", "5", "\r">>, <<>>,
           <<"2", "0", "2", "4", "0", "1", "1", "5">>),
     Piece("field", <<"U", "n", "k", "n", "o", "w", "n", "!">>, <<>>,
           <<"U", "n", "k", "n", "o", "w", "n", "!">>),
     Piece("field", <<>>, <<>>, <<>>)}

\* An answer of the environment.  shape is what the text at stake is made
\* of: the tool's stdout when it is asked to print (holds = "stdout"), the
\* subtitle file's text in a download (holds = "content"), whose stdout
\* the source ignores.  decodes tells whether the file is UTF-8, scratch
\* how the scratch directory fares.
Reply(exit, holds, shape, stderr, wrote, decodes, scratch) ==
    [exit |-> exit, shape |-> shape,
     stdout |-> IF holds = "stdout" THEN Render(shape) ELSE <<>>,
     content |-> IF holds = "content" THEN Render(shape) ELSE <<>>,
     stderr |-> stderr, wrote |-> wrote,
     readable |-> decodes.readable, bad_at |-> decodes.bad_at,
     mkdtemp |-> scratch.mkdtemp, temp_dir |-> scratch.temp_dir,
     keeps |-> scratch.keeps, swept |-> scratch.swept]

\* The file is UTF-8 text.
Decodable == [readable |-> TRUE, bad_at |-> 0]

\* The file holds the byte 0xff at the offset bad_at, after ASCII text.
Undecodable(bad_at) == [readable |-> FALSE, bad_at |-> bad_at]

BadOffsets == {0, 2, 12}

\* The scratch directory temp_dir is made and can be removed again.
Removable(temp_dir) ==
    [mkdtemp |-> "ok", temp_dir |-> temp_dir, keeps |-> FALSE, swept |-> TRUE]

\* The scratch directory could not be made under the name temp_dir.
Unmade(mkdtemp, temp_dir) ==
    [mkdtemp |-> mkdtemp, temp_dir |-> temp_dir, keeps |-> FALSE, swept |-> TRUE]

\* The scratch directory is made and the tool leaves in it a file that
\* cannot be removed; the removal reaches it after the other files or
\* before them.
Stuck(temp_dir, swept) ==
    [mkdtemp |-> "ok", temp_dir |-> temp_dir, keeps |-> TRUE, swept |-> swept]

\* What the tool answers when asked to print: a text of the given shapes,
\* a non-zero exit with a message on stderr, or no executable at all.
PrintReplies(shapes) ==
    {Reply("ok", "stdout", shape, <<>>, {}, Decodable, Removable(TmpA)) : shape \in shapes}
        \cup {Reply("nonzero", "stdout", <<>>, StderrUnavailable, {}, Decodable, Removable(TmpA)),
              Reply("missing", "stdout", <<>>, <<>>, {}, Decodable, Removable(TmpA))}

\* The files the tool leaves: none, or subtitles.<l>.srt for one language.
WroteSets == {{}} \cup {{l} : l \in Langs}

\* How the scratch directory fares once the tool has run in it: it can be
\* removed, or it holds a file that cannot; with no other file in it the
\* order of the removal makes no difference.
Scratches(temp_dir, wrote) ==
    {Removable(temp_dir), Stuck(temp_dir, TRUE)}
        \cup (IF wrote = {} THEN {} ELSE {Stuck(temp_dir, FALSE)})

\* What happens to a download asking for lang: the scratch directory cannot
\* be created; or it is temp_dir, and the tool is missing, fails, or ends
\* well leaving some files.  Only the file of the requested language is
\* ever opened, so only its text (or its being undecodable) is chosen; the
\* text returned is lost when the removal raises, and texts of one chunk
\* stand for all there.
DownloadReplies(lang, fresh, n) ==
    {Reply("ok", "content", <<>>, <<>>, {}, Decodable, Unmade(m, t)) :
         m \in {"nospace", "noroot"}, t \in fresh}
        \cup {Reply("missing", "content", <<>>, <<>>, {}, Decodable, Removable(t)) : t \in fresh}
        \cup UNION {{Reply("nonzero", "content", <<>>, StderrUnavailable, w, Decodable, s) :
                        s \in Scratches(t, w)} : w \in WroteSets, t \in fresh}
        \cup UNION {{Reply("ok", "content", <<>>, <<>>, w, Decodable, s) :
                        s \in Scratches(t, w)} : w \in WroteSets \ {{lang}}, t \in fresh}
        \cup UNION {{Reply("ok", "content", <<>>, <<>>, {lang}, Undecodable(at), s) :
                        s \in Scratches(t, {lang}), at \in BadOffsets} : t \in fresh}
        \cup {Reply("ok", "content", shape, <<>>, {lang}, Decodable, Removable(t)) :
                 shape \in SeqsUpTo(SrtChunks, n), t \in fresh}
        \cup {Reply("ok", "content", shape, <<>>, {lang}, Decodable, Stuck(t, swept)) :
                 shape \in SeqsUpTo(SrtChunks, 1), t \in fresh, swept \in BOOLEAN}

---------------------------------------------------------------------------
(* The state machine.                                                      *)

VARIABLES
    lifespan_context,   \* what lifespan yields: the availability flag
    disk,               \* the scratch directories that exist
    call,               \* the call being answered: operation, url, lang
    reply,              \* what the environment answered in that call
    outcome             \* what the call returned or raised, and its effects

vars == <<lifespan_context, disk, call, reply, outcome>>

NoCall == [op |-> "none", url |-> "", lang |-> <<>>]

NoReply == Reply("missing", "stdout", <<>>, <<>>, {}, Decodable, Removable(TmpA))

\* lifespan: shutil.which decides the flag.  The update it starts in the
\* background when the tool is there is never waited for and its failure
\* is ignored, so it leaves no trace in the state.  No operation has been
\* called yet.
Init ==
    /\ \E found \in BOOLEAN : lifespan_context = [yt_dlp_available |-> found]
    /\ disk = {}
    /\ call = NoCall
    /\ reply = NoReply
    /\ outcome = Outcome(<<>>, FALSE, 0, {}, {})

\* A handler runs from the request to its return without interleaving
\* (it awaits nothing); the state after it shows the call and its outcome.
Finish(op, url, lang, r, o) ==
    /\ call' = [op |-> op, url |-> url, lang |-> lang]
    /\ reply' = r
    /\ outcome' = o
    /\ disk' = o.disk
    /\ UNCHANGED lifespan_context

\* How long the texts of the environment are taken: up to the bound when
\* the tool was found at startup and no scratch directory is left on the
\* disk.  When the tool was not found no operation is meant to ask the
\* environment anything, and no operation's handling of a text looks at
\* what earlier calls left on the disk: texts of one line stand for all.
Asked(bound) ==
    IF lifespan_context["yt_dlp_available"] /\ disk = {} THEN bound ELSE 1

ListSubtitleLanguages ==
    /\ call = NoCall
    /\ \E url \in Urls :
       \E r \in PrintReplies(SeqsUpTo(ListingLines, Asked(MaxListLines))) :
        Finish("list_subtitle_languages", url, <<>>, r,
               list_subtitle_languages(lifespan_context, url, r, disk))

DownloadSubtitles ==
    /\ call = NoCall
    /\ \E url \in Urls, lang \in Langs :
       \E r \in DownloadReplies(lang, FreshDirs(disk), Asked(MaxSrtChunks)) :
        Finish("download_subtitles", url, lang, r,
               download_subtitles(lifespan_context, url, lang, r, disk))

GetVideoInfo ==
    /\ call = NoCall
    /\ \E url \in Urls :
       \E r \in PrintReplies(SeqsUpTo(InfoLines, Asked(MaxInfoLines))) :
        Finish("get_video_info", url, <<>>, r,
               get_video_info(lifespan_context, url, r, disk))

\* The result goes back to the caller and the server waits for the next
\* request; nothing but the disk outlives a call.
Respond ==
    /\ call # NoCall
    /\ call' = NoCall
    /\ reply' = NoReply
    /\ outcome' = Outcome(<<>>, FALSE, 0, {}, disk)
    /\ UNCHANGED <<lifespan_context, disk>>

Next == ListSubtitleLanguages \/ DownloadSubtitles \/ GetVideoInfo \/ Respond

Spec == Init /\ [][Next]_vars

---------------------------------------------------------------------------
(* Properties.  A state with call # NoCall is the state right after that   *)
(* call returned (or raised): reply is what the environment answered and   *)
(* outcome what the call did.                                              *)

Available == lifespan_context["yt_dlp_available"]

Called(op) == call.op = op

\* The tool ran and ended well.
ToolPrinted(op) == Called(op) /\ Available /\ reply.exit = "ok"

\* The download read the requested language's subtitle file.
FileRead ==
    /\ ToolPrinted("download_subtitles")
    /\ reply.mkdtemp = "ok"
    /\ call.lang \in reply.wrote
    /\ reply.readable

\* The values of the lines of a shape: each line without its line end.
Values(shape) == [i \in 1..Len(shape) |-> shape[i].name]

\* The lines of a shape as a text, each ended by "\n".
RECURSIVE AsReceived(_)
AsReceived(shape) ==
    IF shape = <<>> THEN <<>>
    ELSE Head(shape).name \o <<"\n">> \o AsReceived(Tail(shape))

StartsWith(s, prefix) ==
    Len(s) >= Len(prefix) /\ Slice(s, 1, Len(prefix) + 1) = prefix

(* ---------------------------------------------------------------- C1 -- *)

\* C1: when the availability flag computed at startup is false, every call
\* of the three operations, for any url and lang, returns exactly the
\* advisory text, raises nothing, spawns no process and creates no scratch
\* directory.
C1_UnavailableAdvisory ==
    (call # NoCall /\ ~Available) =>
        /\ outcome.result = NotInstalledMsg
        /\ ~outcome.raised
        /\ outcome.spawned = 0
        /\ outcome.made = {}
        /\ disk = {}

\* A download asked for while the flag is false, in an environment where
\* the tool would have answered and left the file.
C1_Witness ==
    /\ Called("download_subtitles")
    /\ ~Available
    /\ reply.exit = "ok"
    /\ reply.mkdtemp = "ok"
    /\ call.lang \in reply.wrote
    /\ outcome.result = NotInstalledMsg
    /\ outcome.spawned = 0

(* ---------------------------------------------------------------- C2 -- *)

ErrorPrefixOf(op) ==
    CASE op = "list_subtitle_languages" -> ListErrorPrefix
      [] op = "download_subtitles" -> DownloadErrorPrefix
      [] op = "get_video_info" -> InfoErrorPrefix

\* The download made its scratch directory and could not remove it again.
RemovalFailed ==
    /\ Called("download_subtitles")
    /\ Available
    /\ reply.mkdtemp = "ok"
    /\ reply.exit # "missing"
    /\ reply.keeps

\* Something failed during the call: the scratch directory could not be
\* created or could not be removed, the tool was missing or exited
\* non-zero, or the file could not be read.
SomethingFailed ==
    /\ call # NoCall
    /\ Available
    /\ \/ Called("download_subtitles") /\ reply.mkdtemp # "ok"
       \/ RemovalFailed
       \/ reply.exit # "ok"
       \/ /\ Called("download_subtitles")
          /\ call.lang \in reply.wrote
          /\ ~reply.readable

\* C2: no call of the three operations raises past the operation; a call
\* during which something failed returns the operation's textual error
\* result.
C2_NeverRaises ==
    /\ call # NoCall => ~outcome.raised
    /\ SomethingFailed => StartsWith(outcome.result, ErrorPrefixOf(call.op))

(* ---------------------------------------------------------------- C3 -- *)

\* The position of the first marker line of a listing, 0 when it has none.
FirstMarker(shape) ==
    LET at == {i \in 1..Len(shape) : shape[i].kind = "marker"}
    IN  IF at = {} THEN 0 ELSE CHOOSE i \in at : \A j \in at : i <= j

\* A listing with a marker line followed by entry lines only, at least one.
ShapedListing(shape) ==
    /\ FirstMarker(shape) > 0
    /\ FirstMarker(shape) < Len(shape)
    /\ \A i \in (FirstMarker(shape) + 1)..Len(shape) : shape[i].kind = "entry"

\* "<code>: <name>" for the lines after the marker, in their order.
EntriesAfterMarker(shape) ==
    [i \in 1..(Len(shape) - FirstMarker(shape)) |->
        shape[FirstMarker(shape) + i].code \o <<":", " ">>
            \o shape[FirstMarker(shape) + i].name]

\* C3: for a listing whose marker line is followed by lines of the shape
\* <code> <format list> <name>, the lister ignores the lines before the
\* marker and lists, in the order of the lines, each code with exactly its
\* name.
C3_ListedNames ==
    (ToolPrinted("list_subtitle_languages") /\ ShapedListing(reply.shape)) =>
        outcome.result =
            LanguagesHeader \o Join(EntriesAfterMarker(reply.shape), <<"\n">>)

(* ---------------------------------------------------------------- C4 -- *)

Paths(d) == {x.path : x \in d}

\* C4: once a download_subtitles call has ended, whichever way, no scratch
\* directory it created is on the disk, and between calls no scratch
\* directory exists at all.
C4_ScratchRemoved ==
    /\ outcome.made \cap Paths(disk) = {}
    /\ call = NoCall => disk = {}

(* ---------------------------------------------------------------- C5 -- *)

\* Blocks separated by blank lines: a block chunk, further caption lines,
\* then one or more blank lines before the next block; blank lines may end
\* the document.  at is "start", "block" (inside a block) or "gap".
RECURSIVE WellFormedFrom(_, _)
WellFormedFrom(shape, at) ==
    IF shape = <<>> THEN at # "start"
    ELSE LET kind == Head(shape).kind
         IN  CASE kind = "block" ->
                    at # "block" /\ WellFormedFrom(Tail(shape), "block")
               [] kind = "caption" ->
                    at = "block" /\ WellFormedFrom(Tail(shape), "block")
               [] kind = "blank" ->
                    at # "start" /\ WellFormedFrom(Tail(shape), "gap")
               [] OTHER -> FALSE

WellFormedSrt(shape) == WellFormedFrom(shape, "start")

\* The caption lines of a document in their order, each ended by a newline.
RECURSIVE Captions(_)
Captions(shape) ==
    IF shape = <<>> THEN <<>>
    ELSE (IF Head(shape).kind \in {"block", "caption"}
          THEN Head(shape).name \o <<"\n">> ELSE <<>>)
             \o Captions(Tail(shape))

\* C5: for a subtitle file made of blocks (number line, timestamp line,
\* caption lines) separated by blank lines, the cleanup in
\* download_subtitles, applied to the text as read from the file, gives
\* the caption lines in their order, with no number line, no timestamp
\* line and no blank line, and that is the text of every such call that
\* returns.
C5_CaptionsOnly ==
    (FileRead /\ WellFormedSrt(reply.shape)) =>
        /\ CleanSubtitles(UniversalNewlines(reply.content))
               = Captions(reply.shape)
        /\ ~outcome.raised => outcome.result = Captions(reply.shape)

\* The two-block document of "Hello" and "World" (the second block with
\* CRLF line ends) gives "Hello\nWorld\n".
C5_Witness ==
    /\ FileRead
    /\ Len(reply.shape) = 3
    /\ reply.shape[1].kind = "block" /\ reply.shape[1].name = Hello
    /\ reply.shape[2].kind = "blank" /\ reply.shape[2].text = <<>>
    /\ reply.shape[3].kind = "block" /\ reply.shape[3].name = World
    /\ ~outcome.raised
    /\ outcome.result = Hello \o <<"\n">> \o World \o <<"\n">>

(* ---------------------------------------------------------------- C6 -- *)

\* C6: a text returned by the cleanup is left unchanged by the cleanup, so
\* that cleaning twice gives what cleaning once gives.
C6_CleanupIdempotent ==
    (FileRead /\ ~outcome.raised) =>
        CleanSubtitles(outcome.result) = outcome.result

(* ---------------------------------------------------------------- C7 -- *)

\* The tool printed at least five lines, none of them empty.
FiveFields(shape) ==
    /\ Len(shape) >= 5
    /\ \A i \in 1..Len(shape) : shape[i].name # <<>>

\* The upload date as the specification has it: hyphens into an 8-digit date, every
\* other value as it is.
DateOrUnchanged(value) ==
    IF Len(value) = 8 /\ \A i \in 1..8 : value[i] \in Digits
    THEN Slice(value, 1, 5) \o <<"-">> \o Slice(value, 5, 7)
             \o <<"-">> \o Slice(value, 7, 9)
    ELSE value

\* The five labelled lines for the given field values.
Labelled(title, duration, channel, upload_date, views) ==
    TitleLabel \o title \o DurationLabel \o duration
        \o ChannelLabel \o channel \o UploadDateLabel \o upload_date
        \o ViewsLabel \o views

\* C7: in the result of get_video_info the upload date, the fourth line of
\* the output, is rewritten to YYYY-MM-DD when it is an 8-digit date and is
\* unchanged for every other value.
C7_UploadDate ==
    (ToolPrinted("get_video_info") /\ FiveFields(reply.shape)) =>
        LET line == Values(reply.shape)
        IN  outcome.result =
                Labelled(line[1], line[2], line[3],
                         DateOrUnchanged(line[4]), line[5])

(* ---------------------------------------------------------------- C8 -- *)

\* C8 as stated: when the tool ends well and prints fewer than five lines
\* (or nothing), get_video_info raises nothing and returns "Couldn't parse
\* video information: " followed by the output exactly as the tool printed
\* it.
C8_ParseFailure ==
    (ToolPrinted("get_video_info") /\ Len(reply.shape) < 5) =>
        /\ ~outcome.raised
        /\ outcome.result = ParseFailurePrefix \o reply.stdout

\* C8 as amended: when the tool ends well and prints fewer than five lines
\* (or nothing), get_video_info raises nothing and returns "Couldn't parse
\* video information: " followed by the output as received in text mode:
\* every line ended by "\n" whatever line end was printed, and nothing
\* else changed (no leading or trailing line stripped).
C8_ParseFailureAsReceived ==
    (ToolPrinted("get_video_info") /\ Len(reply.shape) < 5) =>
        /\ ~outcome.raised
        /\ outcome.result = ParseFailurePrefix \o AsReceived(reply.shape)

\* Four lines were printed, the first of them empty and one with a CRLF
\* line end, and the message holds them with the leading and the trailing
\* newline, the CRLF read as "\n".
C8_Witness ==
    /\ ToolPrinted("get_video_info")
    /\ Len(reply.shape) = 4
    /\ reply.shape[1].text = <<>>
    /\ reply.shape[4].text # <<>>
    /\ \E i \in 1..4 : reply.shape[i].text # reply.shape[i].name
    /\ ~outcome.raised
    /\ outcome.result = ParseFailurePrefix \o AsReceived(reply.shape)
    /\ AsReceived(reply.shape) # reply.stdout
    /\ Strip(AsReceived(reply.shape)) # AsReceived(reply.shape)

(* ---------------------------------------------------------------- C9 -- *)

\* C9: when the tool ends well and subtitles.<lang>.srt is not in the
\* scratch directory, download_subtitles raises nothing and returns "No
\* subtitles found for language: <lang>", not an error result.
C9_NoSubtitlesForLang ==
    (/\ ToolPrinted("download_subtitles")
     /\ reply.mkdtemp = "ok"
     /\ call.lang \notin reply.wrote) =>
        /\ ~outcome.raised
        /\ outcome.result = NoSubsForLangPrefix \o call.lang

(* --------------------------------------------------------------- C10 -- *)

\* C10: whenever the tool prints at least five lines, the result of
\* get_video_info is the five labelled lines built from the first five
\* lines of the output in their order (the fourth with the date rewritten
\* as the code rewrites it), further lines ignored; it is never the
\* parse-failure message and no value moves to another label.
C10_FiveLabelledLines ==
    (ToolPrinted("get_video_info") /\ Len(reply.shape) >= 5) =>
        LET line == Values(reply.shape)
        IN  outcome.result =
                Labelled(line[1], line[2], line[3],
                         FormatUploadDate(line[4]), line[5])

=============================================================================
